---- MODULE Spec2Model ----
(***************************************************************************)
(* Model of the client-side authentication session manager of surveystaff  *)
(* (ui/src/contexts/AuthContext.js), of the gateway it calls               *)
(* (ui/src/api/authService.js, ui/src/api/config.js) and of the route      *)
(* guard that reads it (ui/src/components/auth/PrivateRoute.js).           *)
(*                                                                         *)
(* JavaScript is single threaded: an async function runs from its entry to *)
(* its first await, and from the settlement of the awaited promise to the  *)
(* next await or to its end, without interruption.  Each such run is one   *)
(* action here.  Several async functions may be suspended at once.         *)
(***************************************************************************)
EXTENDS Naturals, FiniteSets, Sequences, TLC

\* ------------------------------------------------------------------ bounds
\* Number of public actions that may be suspended on a gateway call at once.
MaxTasks == 2
\* Number of public actions invoked in one run of the application.
MaxInvocations == 3
\* Number of auth-state-change notifications the SDK delivers in one run.
MaxNotifications == 3
\* Number of useData / useStorage operations called in one run, and how many
\* of them may be suspended at once.
MaxHookCalls == 2
MaxHookTasks == 2
\* Length of the option list of QuestionDesigner and of the question list of
\* SurveyDesigner.
MaxOptions == 2
MaxQuestions == 2

\* ------------------------------------------------------------------ values
\* JavaScript null / undefined (both falsy, both "absent").
Null == "null"

Users == {"u1", "u2"}
Tokens == {"tok1", "tok2"}
\* Session payloads the backend may return; "s3" is a session object that
\* carries no access_token.
Sessions == {"s1", "s2", "s3"}

\* response.session?.access_token
AccessToken(s) ==
    CASE s = "s1" -> "tok1"
      [] s = "s2" -> "tok2"
      [] OTHER    -> Null

\* `a || b` on strings, with Null the falsy value.
OrElse(a, b) == IF a # Null THEN a ELSE b

\* ------------------------------------------------------- gateway (api layer)
\* A response body: {success, error?, user?, session?}.
Body(success, err, u, s) ==
    [success |-> success, error |-> err, user |-> u, session |-> s]

NoBody == Body(FALSE, Null, Null, Null)

\* What fetch() produced: a rejection (net), or an HTTP response.
Http(net, ok, statusText, body) ==
    [net |-> net, ok |-> ok, statusText |-> statusText, body |-> body]

\* Success payloads of the backend, per endpoint.
SuccessBodies(fn) ==
    CASE fn \in {"signUp", "signIn"} ->
             { Body(TRUE, Null, "u1", "s1"), Body(TRUE, Null, "u2", "s2"),
               Body(TRUE, Null, "u2", "s3"), Body(TRUE, Null, "u1", Null) }
      [] fn = "verifySession" ->
             { Body(TRUE, Null, Null, s) : s \in {"s1", "s2"} }
      [] fn \in {"getCurrentUser", "updateUser"} ->
             { Body(TRUE, Null, u, Null) : u \in Users }
      [] OTHER -> { Body(TRUE, Null, Null, Null) }

FailureBodies ==
    { Body(FALSE, "Invalid credentials", Null, Null), Body(FALSE, Null, Null, Null) }

\* Everything the network and the backend can answer to one request.
HttpOutcomes(fn) ==
    { Http(TRUE, FALSE, Null, NoBody) }
    \cup { Http(FALSE, TRUE, "OK", b) : b \in SuccessBodies(fn) \cup FailureBodies }
    \cup { Http(FALSE, FALSE, "Bad Request", b) : b \in FailureBodies }

\* The settlement of a promise: a thrown Error(message) or a returned value.
Thrown(msg) == [threw |-> TRUE, message |-> msg, data |-> NoBody]
Returned(data) == [threw |-> FALSE, message |-> Null, data |-> data]

\* Variant: the body is returned whatever the HTTP status is.
HandleResponse_NeverThrows(response) == Returned(response.body)

\* Variant: the error of a non-2xx response always carries the status text.
HandleResponse_StatusTextOnly(response) ==
    IF ~response.ok THEN Thrown(response.statusText) ELSE Returned(response.body)

\* config.js handleResponse
HandleResponse(response) ==
    IF ~response.ok
    THEN Thrown(OrElse(response.body.error, response.statusText))
    ELSE Returned(response.body)

\* authService.js: every function is
\*   try { response = await fetch(..); return await handleResponse(response) }
\*   catch (error) { console.error(..); throw error }
AuthServiceCall(h) ==
    IF h.net THEN Thrown("Failed to fetch") ELSE HandleResponse(h)

\* No request: the value of `http` in a settlement that no fetch produced.
NoHttp == Http(FALSE, FALSE, "none", NoBody)

\* A settlement together with what fetch() had produced for it.
From(res, h) ==
    [threw |-> res.threw, message |-> res.message, data |-> res.data, http |-> h]

\* The settlements a caller of authService.<fn> can observe.
GatewayResults(fn) == { From(AuthServiceCall(h), h) : h \in HttpOutcomes(fn) }

\* ------------------------------------------------------------------- state
VARIABLES
    user,        \* useState(null)
    session,     \* useState(null)
    loading,     \* useState(true)
    error,       \* useState(null)
    token,       \* localStorage['supabase_auth_token']
    boot,        \* the checkSession() call of the mount effect: [pc, tok, calls, verified]
    tasks,       \* public actions suspended on a gateway call: kind -> how many
    invoked,     \* number of public actions invoked so far
    concurrent,  \* history: the latest invocation overlapped another call
    last,        \* history: what the latest step did
    mounted,     \* the AuthProvider component is mounted
    lateSets     \* history: a state setter was called after the unmount

\* The AuthProvider built on the SDK client (supabase.auth), a component of
\* its own with its own state.
VARIABLES
    sdkUser,     \* useState(null)
    sdkLoading,  \* useState(true)
    sdkError,    \* useState(null)
    sdkBoot,     \* position of getSession(): start, getSession, getUser, done
    sdkPending,  \* onAuthStateChange callbacks suspended on getUser()
    sdkNotes,    \* notifications delivered so far
    sdkWritten,  \* history: identity carried by the latest finished update
    sdkLast      \* history: what the latest step of this provider did

\* One call of a service function of the api layer, from the request it
\* builds to its settlement.
VARIABLES
    api          \* [phase, fn, tok, config, http, threw, message, data]

\* The useData and useStorage hooks, each with its own local state.
VARIABLES
    hookLoading, \* useState(false) of each hook
    hookError,   \* useState(null) of each hook
    hookTasks,   \* operations of each hook suspended on a service call
    hookCalls,   \* number of hook operations called so far
    hookLast     \* history: what the latest step of a hook did

\* QuestionDesigner inside SurveyDesigner.
VARIABLES
    questionType, \* useState('multiple-choice')
    questionText, \* useState('')
    options,      \* useState(['Option 1'])
    questions     \* useState([]) of SurveyDesigner

authVars == <<user, session, loading, error, token, boot, tasks, invoked,
              concurrent, last, mounted, lateSets>>

sdkVars == <<sdkUser, sdkLoading, sdkError, sdkBoot, sdkPending, sdkNotes,
             sdkWritten, sdkLast>>

apiVars == <<api>>

hookVars == <<hookLoading, hookError, hookTasks, hookCalls, hookLast>>

designerVars == <<questionType, questionText, options, questions>>

vars == <<user, session, loading, error, token, boot, tasks, invoked, concurrent,
          last, mounted, lateSets, sdkUser, sdkLoading, sdkError, sdkBoot,
          sdkPending, sdkNotes, sdkWritten, sdkLast, api, hookLoading, hookError,
          hookTasks, hookCalls, hookLast, questionType, questionText, options,
          questions>>

\* The public actions of the context value.
Kinds == {"signUp", "signIn", "signOut", "resetPassword", "updatePassword", "updateProfile"}

\* AuthState plus the token slot, as one value the code blocks transform.
Cur == [user |-> user, session |-> session, loading |-> loading,
        error |-> error, token |-> token]

\* The effect of one run of a handler.  Every run calls at least one state
\* setter; React drops the updates of an unmounted component, while a write
\* to localStorage takes effect whether or not the component is mounted.
Apply(st) ==
    /\ IF mounted
       THEN /\ user' = st.user
            /\ session' = st.session
            /\ loading' = st.loading
            /\ error' = st.error
       ELSE UNCHANGED <<user, session, loading, error>>
    /\ token' = st.token
    /\ lateSets' = (lateSets \/ ~mounted)
    /\ UNCHANGED <<mounted, sdkVars, apiVars, hookVars, designerVars>>

\* getToken(): localStorage.getItem('supabase_auth_token')
getToken == token

Event(op, phase, out, call, callTok, res) ==
    [op |-> op, phase |-> phase, out |-> out, call |-> call, callTok |-> callTok,
     threw |-> res.threw, message |-> res.message, data |-> res.data,
     http |-> res.http]

\* The step consumed no gateway settlement.
NoResult == From(Returned(NoBody), NoHttp)

\* One request handed to authService: the function and the token argument.
GatewayCall(fn, tok) == [fn |-> fn, tok |-> tok]

BootInFlight == boot.pc \in {"verify", "getUser"}
\* The kinds of action of which a call is suspended, and how many calls are.
TasksInFlight == { k \in Kinds : tasks[k] > 0 }
NumInFlight ==
    tasks["signUp"] + tasks["signIn"] + tasks["signOut"]
    + tasks["resetPassword"] + tasks["updatePassword"] + tasks["updateProfile"]
Quiescent == boot.pc = "done" /\ TasksInFlight = {}

\* ------------------------------------------------- code blocks of AuthContext
\* Variant: the entry clears the error but leaves the global flag alone.
Enter_NoLoading(st) == [st EXCEPT !.error = Null]

\* Variant: the entry leaves the error of an earlier failure in place.
Enter_KeepsError(st) == [st EXCEPT !.loading = TRUE]

\* try-block entry of every public action: setLoading(true); setError(null)
Enter(st) == [st EXCEPT !.loading = TRUE, !.error = Null]

\* Variant: setLoading(false) as the last statement of the try block instead
\* of a finally, so that it is skipped once an error has been caught.
Finally_OnlyWhenNoError(st) ==
    IF st.error = Null THEN [st EXCEPT !.loading = FALSE] ELSE st

\* finally { setLoading(false) }
Finally(st) == [st EXCEPT !.loading = FALSE]

\* Variant: the catch block also signs the user out locally, as the catch
\* block of checkSession does.
CatchError_ClearsIdentity(st, msg) ==
    [st EXCEPT !.error = msg, !.token = Null, !.session = Null, !.user = Null]

\* catch (error) { setError(error.message); throw error } of the actions
CatchError(st, msg) == [st EXCEPT !.error = msg]

\* catch block of checkSession: setError, removeItem, setSession(null), setUser(null)
CheckSessionCatch(st, msg) ==
    [st EXCEPT !.error = msg, !.token = Null, !.session = Null, !.user = Null]

\* else-branch of checkSession (verifySession answered success:false)
CheckSessionInvalid(st) ==
    [st EXCEPT !.token = Null, !.session = Null, !.user = Null]

\* Variant: the verified session is not stored.
CheckSessionVerified_DropsSession(st, data) == st

\* checkSession after verifySession succeeded: setSession(response.session)
CheckSessionVerified(st, data) == [st EXCEPT !.session = data.session]

\* checkSession after getCurrentUser returned
CheckSessionUser(st, data) ==
    IF data.success THEN [st EXCEPT !.user = data.user] ELSE st

\* Variant: the token persisted is read from the `session` state captured by
\* the closure (the previous session) instead of from the response.
StoreIdentity_StaleSession(st, data) ==
    [st EXCEPT !.user = data.user,
               !.session = data.session,
               !.token = IF AccessToken(st.session) # Null
                         THEN AccessToken(st.session) ELSE @]

\* success branch of signUp and signIn
StoreIdentity(st, data) ==
    [st EXCEPT !.user = data.user,
               !.session = data.session,
               !.token = IF AccessToken(data.session) # Null
                         THEN AccessToken(data.session) ELSE @]

\* Variant: the identity is cleared but the token slot is left alone.
SignOutCleanup_KeepsToken(st) == [st EXCEPT !.user = Null, !.session = Null]

\* "Always clean up local state" of signOut (both the try and the catch path)
SignOutCleanup(st) == [st EXCEPT !.token = Null, !.user = Null, !.session = Null]

\* Variant: setUser(response.user) without the `if (response.success)`.
StoreProfile_Unconditional(st, data) == [st EXCEPT !.user = data.user]

\* success branch of updateProfile
StoreProfile(st, data) ==
    IF data.success THEN [st EXCEPT !.user = data.user] ELSE st

\* ------------------------------------------------------------- route guard
\* Variant: the page looks at the session instead of the user.
AuthPage_BySession(u) == IF session # Null THEN "dashboard" ELSE "forms"

\* AuthPage.js: <Navigate to="/dashboard"> when user is set, the sign-in and
\* sign-up forms otherwise
AuthPage(u) == IF u # Null THEN "dashboard" ELSE "forms"

\* Variant: the guard looks at the session instead of the user.
PrivateRoute_BySession(isLoading, u) ==
    IF isLoading THEN "spinner"
    ELSE IF session # Null THEN "outlet" ELSE "redirect"

\* PrivateRoute.js
PrivateRoute(isLoading, u) ==
    IF isLoading THEN "spinner"
    ELSE IF u # Null THEN "outlet" ELSE "redirect"

\* ------------------------------------------ code blocks of the SDK provider
\* State of the SDK-based provider, as one value its code blocks transform.
SdkCur == [user |-> sdkUser, loading |-> sdkLoading, error |-> sdkError]

SdkApply(st) ==
    /\ sdkUser' = st.user
    /\ sdkLoading' = st.loading
    /\ sdkError' = st.error

\* Variant: an identity already set is kept, the first writer wins.
SdkSetUser_KeepsFirst(st, u) ==
    IF st.user # Null THEN st ELSE [st EXCEPT !.user = u]

\* setUser(currentUser) / setUser(null)
SdkSetUser(st, u) == [st EXCEPT !.user = u]

\* setLoading(false): the finally of getSession, the last statement of the
\* onAuthStateChange callback
SdkDone(st) == [st EXCEPT !.loading = FALSE]

\* catch (error) { setError(error.message) } of getSession
SdkCatch(st, msg) == [st EXCEPT !.error = msg]

\* The update "signed in as u", as both getSession and the callback apply it:
\* setUser(currentUser) then setLoading(false).
SdkSignedIn(st, u) == SdkDone(SdkSetUser(st, u))

\* The value of `carried` in a step that finished no identity update.
Nothing == "nothing"

SdkEvent(src, phase, carried, before) ==
    [src |-> src, phase |-> phase, carried |-> carried, before |-> before]

\* ------------------------------------------------------------ api requests
\* The functions of the three services.
AuthServices ==
    {"signUp", "signIn", "signOut", "getCurrentUser", "updateUser",
     "resetPassword", "updatePassword", "verifySession"}
DataServices == {"fetchData", "insertData", "updateData", "deleteData", "executeQuery"}
StorageServices == {"uploadFile", "downloadFile", "listFiles", "deleteFile", "getPublicUrl"}

\* Token arguments a caller may hand to a service function; "" is the empty
\* string.
TokenArgs == Tokens \cup {Null, ""}

\* `if (x)` on a string or null.
Truthy(x) == x # Null /\ x # ""

\* A header that is not set.
NoHeader == <<>>

\* config.js DEFAULT_HEADERS; Authorization is absent.
DefaultHeaders ==
    [ContentType |-> "application/json", Accept |-> "application/json",
     Authorization |-> NoHeader]

\* Variant: the Authorization header is set whatever the token is.
BuildHeaders_Always(tok) == [DefaultHeaders EXCEPT !.Authorization = <<"Bearer", tok>>]

\* config.js buildHeaders; the header value `Bearer ${token}` is the pair.
BuildHeaders(tok) ==
    IF Truthy(tok)
    THEN [DefaultHeaders EXCEPT !.Authorization = <<"Bearer", tok>>]
    ELSE DefaultHeaders

\* Request data: null, or an object made of the caller's arguments
\* ({ access_token: token } for signOut).
NoData == [args |-> Null, access_token |-> Null]

\* config.js createRequestConfig(method, data = null, token = null)
CreateRequestConfig(method, data, tok) ==
    [method |-> method, headers |-> BuildHeaders(tok), credentials |-> "include",
     body |-> IF data # NoData /\ method \in {"POST", "PUT", "PATCH"}
              THEN data ELSE NoData]

\* The service functions that have a token parameter.
TokenParam(fn) == fn \notin {"signUp", "signIn", "resetPassword"}

\* The HTTP method each service function uses.
Method(fn) ==
    CASE fn \in {"getCurrentUser", "verifySession", "fetchData", "downloadFile",
                 "listFiles"} -> "GET"
      [] fn \in {"updateUser", "updateData"} -> "PUT"
      [] fn \in {"deleteData", "deleteFile"} -> "DELETE"
      [] OTHER -> "POST"

\* The data each service function hands to createRequestConfig: null for the
\* GET and DELETE requests, { access_token: token } for signOut, the
\* caller's arguments otherwise.
Payload(fn, tok) ==
    CASE Method(fn) \in {"GET", "DELETE"} -> NoData
      [] fn = "signOut" -> [args |-> fn, access_token |-> tok]
      [] OTHER -> [args |-> fn, access_token |-> Null]

\* The request configuration a service function builds.
ServiceRequest(fn, tok) ==
    CreateRequestConfig(Method(fn), Payload(fn, tok),
                        IF TokenParam(fn) THEN tok ELSE Null)

\* Variant: the catch block logs the error and does not rethrow it.
DataServiceCall_Swallows(h) ==
    IF h.net \/ ~h.ok THEN Returned(NoBody) ELSE HandleResponse(h)

\* dataService.js: every function is
\*   try { response = await fetch(..); return await handleResponse(response) }
\*   catch (error) { console.error(..); throw error }
DataServiceCall(h) ==
    IF h.net THEN Thrown("Failed to fetch") ELSE HandleResponse(h)

\* storageService.js: the same shape as dataService.js.
StorageServiceCall(h) ==
    IF h.net THEN Thrown("Failed to fetch") ELSE HandleResponse(h)

\* The settlement of service function fn when fetch produced h.
ServiceCall(fn, h) ==
    CASE fn \in AuthServices -> AuthServiceCall(h)
      [] fn \in DataServices -> DataServiceCall(h)
      [] OTHER -> StorageServiceCall(h)

ApiCall(phase, fn, tok, config, res) ==
    [phase |-> phase, fn |-> fn, tok |-> tok, config |-> config,
     http |-> res.http, threw |-> res.threw, message |-> res.message,
     data |-> res.data]

\* No call has been made.
ApiIdle ==
    ApiCall("idle", "none", Null, CreateRequestConfig("GET", NoData, Null), NoResult)

\* ------------------------------------------------------------------- hooks
Hooks == {"useData", "useStorage"}

\* The operations of each hook and the service function each one calls.
HookOps(h) ==
    IF h = "useData"
    THEN DataServices
    ELSE StorageServices \cup {"uploadFileWithUniqueId"}

HookService(op) == IF op = "uploadFileWithUniqueId" THEN "uploadFile" ELSE op

\* What a step of a hook did; every operation of a hook is the same code
\* around a different service function, so the hook stands for them all.
HookEvent(hook, phase, out, callTok, res) ==
    [hook |-> hook, phase |-> phase, out |-> out, callTok |-> callTok,
     threw |-> res.threw, message |-> res.message, data |-> res.data,
     http |-> res.http]

\* Local state of one hook, as one value its code blocks transform.
HookCur(h) == [loading |-> hookLoading[h], error |-> hookError[h]]

HookApply(h, st) ==
    /\ hookLoading' = [hookLoading EXCEPT ![h] = st.loading]
    /\ hookError' = [hookError EXCEPT ![h] = st.error]

\* try-block entry of every hook operation: setLoading(true); setError(null)
HookEnter(st) == [st EXCEPT !.loading = TRUE, !.error = Null]

\* catch (error) { setError(error.message); throw error }
HookCatch(st, msg) == [st EXCEPT !.error = msg]

\* finally { setLoading(false) }
HookFinally(st) == [st EXCEPT !.loading = FALSE]

\* Variant: the token is the one that was persisted when the provider
\* mounted, read once and kept.
HookToken_AtMount == boot.tok

\* const token = getToken(), inside each operation
HookToken == getToken

\* The settlements a hook operation can observe from its service.
HookResults(h) ==
    IF h = "useData"
    THEN { From(DataServiceCall(x), x) : x \in HttpOutcomes("fetchData") }
    ELSE { From(StorageServiceCall(x), x) : x \in HttpOutcomes("uploadFile") }

HookTasksInFlight == hookTasks["useData"] + hookTasks["useStorage"]

\* -------------------------------------------------------- question designer
\* The values of the question type <select>.
QuestionTypes == {"multiple-choice", "checkbox", "short-text", "long-text"}

\* What a user types: a question text, an option text.
Typed == "Q"
TypedOption == [text |-> "A", n |-> 0]

\* `Option ${n}`
OptionLabel(n) == [text |-> "Option", n |-> n]

\* options.filter((_, i) => i !== index), with indices from 1
RECURSIVE Without(_, _)
Without(seq, index) ==
    IF seq = <<>> THEN <<>>
    ELSE IF index = 1 THEN Tail(seq)
    ELSE <<Head(seq)>> \o Without(Tail(seq), index - 1)

\* The options UI is rendered for these types only.
HasOptionsUI == questionType \in {"multiple-choice", "checkbox"}

\* -------------------------------------------------------------------- Init
Init ==
    /\ user = Null
    /\ session = Null
    /\ loading = TRUE
    /\ error = Null
    /\ token \in {Null, "tok1"}
    /\ boot = [pc |-> "start", tok |-> Null, calls |-> <<>>, verified |-> Null]
    /\ tasks = [k \in Kinds |-> 0]
    /\ invoked = 0
    /\ concurrent = FALSE
    /\ last = Event("mount", "none", "none", "none", Null, NoResult)
    /\ mounted = TRUE
    /\ lateSets = FALSE
    /\ sdkUser = Null
    /\ sdkLoading = TRUE
    /\ sdkError = Null
    /\ sdkBoot = "start"
    /\ sdkPending = 0
    /\ sdkNotes = 0
    /\ sdkWritten = Null
    /\ sdkLast = SdkEvent("mount", "none", Nothing, Null)
    /\ api = ApiIdle
    /\ hookLoading = [h \in Hooks |-> FALSE]
    /\ hookError = [h \in Hooks |-> Null]
    /\ hookTasks = [h \in Hooks |-> 0]
    /\ hookCalls = 0
    /\ hookLast = HookEvent("none", "mount", "none", Null, NoResult)
    /\ questionType = "multiple-choice"
    /\ questionText = ""
    /\ options = <<OptionLabel(1)>>
    /\ questions = <<>>

\* --------------------------------------------------------------- bootstrap
\* Variant: the `if (token)` guard is missing, verifySession is always called.
CheckSession_NoTokenGuard ==
    /\ boot.pc = "start"
    /\ Apply([Cur EXCEPT !.loading = TRUE])
    /\ boot' = [boot EXCEPT !.pc = "verify", !.tok = token,
                             !.calls = <<GatewayCall("verifySession", token)>>]
    /\ last' = Event("checkSession", "invoke", "pending",
                     "verifySession", token, NoResult)
    /\ UNCHANGED <<tasks, invoked, concurrent>>

\* useEffect(() => { checkSession() }, []) up to its first await
CheckSession ==
    /\ boot.pc = "start"
    /\ IF token # Null
       THEN /\ Apply([Cur EXCEPT !.loading = TRUE])
            /\ boot' = [boot EXCEPT !.pc = "verify", !.tok = token,
                                     !.calls = <<GatewayCall("verifySession", token)>>]
            /\ last' = Event("checkSession", "invoke", "pending",
                             "verifySession", token, NoResult)
       ELSE /\ Apply(Finally([Cur EXCEPT !.loading = TRUE]))
            /\ boot' = [boot EXCEPT !.pc = "done"]
            /\ last' = Event("checkSession", "settle", "resolved", "none", Null, NoResult)
    /\ UNCHANGED <<tasks, invoked, concurrent>>

\* checkSession resumed by the settlement of authService.verifySession(token)
CheckSessionVerifySettle ==
    /\ boot.pc = "verify"
    /\ \E r \in GatewayResults("verifySession") :
         IF r.threw
         THEN /\ Apply(Finally(CheckSessionCatch(Cur, r.message)))
              /\ boot' = [boot EXCEPT !.pc = "done"]
              /\ last' = Event("checkSession", "settle", "resolved", "none", Null, r)
         ELSE IF r.data.success
         THEN /\ Apply(CheckSessionVerified(Cur, r.data))
              /\ boot' = [boot EXCEPT !.pc = "getUser",
                                       !.verified = r.data.session,
                                       !.calls = Append(@, GatewayCall("getCurrentUser", boot.tok))]
              /\ last' = Event("checkSession", "verified", "pending",
                               "getCurrentUser", boot.tok, r)
         ELSE /\ Apply(Finally(CheckSessionInvalid(Cur)))
              /\ boot' = [boot EXCEPT !.pc = "done"]
              /\ last' = Event("checkSession", "settle", "resolved", "none", Null, r)
    /\ UNCHANGED <<tasks, invoked, concurrent>>

\* checkSession resumed by the settlement of authService.getCurrentUser(token)
CheckSessionUserSettle ==
    /\ boot.pc = "getUser"
    /\ \E r \in GatewayResults("getCurrentUser") :
         /\ IF r.threw
            THEN Apply(Finally(CheckSessionCatch(Cur, r.message)))
            ELSE Apply(Finally(CheckSessionUser(Cur, r.data)))
         /\ last' = Event("checkSession", "settle", "resolved", "none", Null, r)
    /\ boot' = [boot EXCEPT !.pc = "done"]
    /\ UNCHANGED <<tasks, invoked, concurrent>>

BootNext == CheckSession \/ CheckSessionVerifySettle \/ CheckSessionUserSettle

\* ---------------------------------------------------------- public actions
\* A handler can be invoked once the mount effect has run.
CanInvoke == mounted /\ boot.pc # "start" /\ invoked < MaxInvocations

\* Bound on the calls suspended at once.
CanSuspend == NumInFlight < MaxTasks

Suspend(kind) == tasks' = [tasks EXCEPT ![kind] = @ + 1]
Release(kind) == tasks' = [tasks EXCEPT ![kind] = @ - 1]

Invoked ==
    /\ invoked' = invoked + 1
    /\ concurrent' = (BootInFlight \/ TasksInFlight # {})

\* signUp(email, password, metadata) up to `await authService.signUp(..)`
SignUp ==
    /\ CanInvoke /\ CanSuspend
    /\ Apply(Enter(Cur))
    /\ Suspend("signUp")
    /\ last' = Event("signUp", "invoke", "pending", "signUp", Null, NoResult)
    /\ Invoked
    /\ UNCHANGED boot

\* signIn(email, password) up to `await authService.signIn(..)`
SignIn ==
    /\ CanInvoke /\ CanSuspend
    /\ Apply(Enter(Cur))
    /\ Suspend("signIn")
    /\ last' = Event("signIn", "invoke", "pending", "signIn", Null, NoResult)
    /\ Invoked
    /\ UNCHANGED boot

\* The message signUp / signIn fail with.  A success:false answer is turned
\* into a throw inside the try block:
\*   throw new Error(response.error || 'Sign up failed')
SignError(r, fallback) ==
    IF r.threw THEN r.message ELSE OrElse(r.data.error, fallback)

\* What signUp / signIn do to the state once the gateway call has settled.
SignOutcome(st, r, fallback) ==
    IF ~r.threw /\ r.data.success
    THEN Finally(StoreIdentity(st, r.data))
    ELSE Finally(CatchError(st, SignError(r, fallback)))

\* signUp / signIn resumed by the settlement of the gateway call.
SignSettle(kind, fallback) ==
    /\ tasks[kind] > 0
    /\ \E r \in GatewayResults(kind) :
         /\ Apply(SignOutcome(Cur, r, fallback))
         /\ IF ~r.threw /\ r.data.success
            THEN last' = Event(kind, "settle", "resolved", "none", Null, r)
            ELSE last' = Event(kind, "settle", "rejected", "none", Null,
                               [r EXCEPT !.message = SignError(r, fallback)])
    /\ Release(kind)
    /\ UNCHANGED <<boot, invoked, concurrent>>

\* One whole signIn (entry, await, continuation) from state st when the
\* gateway settles with r and nothing else runs in between.
SignInOnce(st, r) == SignOutcome(Enter(st), r, "Sign in failed")

SignUpSettle == SignSettle("signUp", "Sign up failed")

SignInSettle == SignSettle("signIn", "Sign in failed")

\* signOut() up to `await authService.signOut(token)`, or to its end when no
\* token is persisted (no await is reached)
SignOut ==
    /\ CanInvoke
    /\ IF token # Null
       THEN /\ CanSuspend
            /\ Apply(Enter(Cur))
            /\ Suspend("signOut")
            /\ last' = Event("signOut", "invoke", "pending", "signOut", token, NoResult)
       ELSE /\ Apply(Finally(SignOutCleanup(Enter(Cur))))
            /\ UNCHANGED tasks
            /\ last' = Event("signOut", "settle", "resolved", "none", Null, NoResult)
    /\ Invoked
    /\ UNCHANGED boot

\* signOut resumed: the response is not inspected; a throw goes to the catch
SignOutSettle ==
    /\ tasks["signOut"] > 0
    /\ \E r \in GatewayResults("signOut") :
         IF r.threw
         THEN /\ Apply(Finally(SignOutCleanup(CatchError(Cur, r.message))))
              /\ last' = Event("signOut", "settle", "rejected", "none", Null, r)
         ELSE /\ Apply(Finally(SignOutCleanup(Cur)))
              /\ last' = Event("signOut", "settle", "resolved", "none", Null, r)
    /\ Release("signOut")
    /\ UNCHANGED <<boot, invoked, concurrent>>

\* Variant: the persisted token is read and handed to the gateway.
ResetPassword_SendsToken ==
    /\ CanInvoke /\ CanSuspend
    /\ Apply(Enter(Cur))
    /\ Suspend("resetPassword")
    /\ last' = Event("resetPassword", "invoke", "pending", "resetPassword", token, NoResult)
    /\ Invoked
    /\ UNCHANGED boot

\* resetPassword(email) up to `await authService.resetPassword(email)`
ResetPassword ==
    /\ CanInvoke /\ CanSuspend
    /\ Apply(Enter(Cur))
    /\ Suspend("resetPassword")
    /\ last' = Event("resetPassword", "invoke", "pending", "resetPassword", Null, NoResult)
    /\ Invoked
    /\ UNCHANGED boot

\* resetPassword / updatePassword resumed: `return response` whatever it says
PassthroughSettle(kind) ==
    /\ tasks[kind] > 0
    /\ \E r \in GatewayResults(kind) :
         IF r.threw
         THEN /\ Apply(Finally(CatchError(Cur, r.message)))
              /\ last' = Event(kind, "settle", "rejected", "none", Null, r)
         ELSE /\ Apply(Finally(Cur))
              /\ last' = Event(kind, "settle", "resolved", "none", Null, r)
    /\ Release(kind)
    /\ UNCHANGED <<boot, invoked, concurrent>>

ResetPasswordSettle == PassthroughSettle("resetPassword")

\* Variant: the `if (!token) throw` guard is missing.
TokenAction_NoTokenCheck(kind, fn) ==
    /\ CanInvoke /\ CanSuspend
    /\ Apply(Enter(Cur))
    /\ Suspend(kind)
    /\ last' = Event(kind, "invoke", "pending", fn, token, NoResult)
    /\ Invoked
    /\ UNCHANGED boot

\* updatePassword / updateProfile up to the await, or to the end when no token
\* is persisted: throw new Error('Not authenticated')
TokenAction(kind, fn) ==
    /\ CanInvoke
    /\ IF token # Null
       THEN /\ CanSuspend
            /\ Apply(Enter(Cur))
            /\ Suspend(kind)
            /\ last' = Event(kind, "invoke", "pending", fn, token, NoResult)
       ELSE /\ Apply(Finally(CatchError(Enter(Cur), "Not authenticated")))
            /\ UNCHANGED tasks
            /\ last' = Event(kind, "settle", "rejected", "none", Null,
                             From(Thrown("Not authenticated"), NoHttp))
    /\ Invoked
    /\ UNCHANGED boot

UpdatePassword == TokenAction("updatePassword", "updatePassword")

UpdatePasswordSettle == PassthroughSettle("updatePassword")

UpdateProfile == TokenAction("updateProfile", "updateUser")

\* updateProfile resumed by the settlement of authService.updateUser(token, data)
UpdateProfileSettle ==
    /\ tasks["updateProfile"] > 0
    /\ \E r \in GatewayResults("updateUser") :
         IF r.threw
         THEN /\ Apply(Finally(CatchError(Cur, r.message)))
              /\ last' = Event("updateProfile", "settle", "rejected", "none", Null, r)
         ELSE /\ Apply(Finally(StoreProfile(Cur, r.data)))
              /\ last' = Event("updateProfile", "settle", "resolved", "none", Null, r)
    /\ Release("updateProfile")
    /\ UNCHANGED <<boot, invoked, concurrent>>

InvokeNext ==
    SignUp \/ SignIn \/ SignOut \/ ResetPassword \/ UpdatePassword \/ UpdateProfile

\* The gateway call that some suspended action awaits settles.
SettleNext ==
    \/ SignUpSettle \/ SignInSettle \/ SignOutSettle
    \/ ResetPasswordSettle \/ UpdatePasswordSettle \/ UpdateProfileSettle

Next == BootNext \/ InvokeNext \/ SettleNext

Spec == Init /\ [][Next]_vars

\* The mount effect runs, and while gateway calls are pending one of them
\* eventually resolves or rejects.
LiveSpec == Spec /\ WF_vars(BootNext) /\ WF_vars(SettleNext)

\* The AuthProvider is unmounted.  The mount effect returns no cleanup
\* function and nothing records the unmount for the suspended calls, which
\* resume as usual when their gateway call settles.
Unmount ==
    /\ mounted /\ boot.pc # "start"
    /\ mounted' = FALSE
    /\ last' = Event("unmount", "none", "none", "none", Null, NoResult)
    /\ UNCHANGED <<user, session, loading, error, token, boot, tasks, invoked,
                   concurrent, lateSets, sdkVars, apiVars, hookVars, designerVars>>

\* The provider over its whole life, the unmount included.
TeardownNext == Next \/ Unmount

TeardownSpec == Init /\ [][TeardownNext]_vars

\* ------------------------------------------------- SDK-based AuthProvider
\* useEffect: getSession() up to `await supabase.auth.getSession()`; the
\* onAuthStateChange subscription is made in the same run.
SdkGetSession ==
    /\ sdkBoot = "start"
    /\ SdkApply([SdkCur EXCEPT !.loading = TRUE])
    /\ sdkBoot' = "getSession"
    /\ sdkLast' = SdkEvent("bootstrap", "invoke", Nothing, sdkUser)
    /\ UNCHANGED <<sdkPending, sdkNotes, sdkWritten, authVars, apiVars, hookVars,
                   designerVars>>

\* getSession() resumed by { data: { session }, error }, or by a rejection
SdkGetSessionSettle ==
    /\ sdkBoot = "getSession"
    /\ \E out \in {"error", "session", "no session"} :
         CASE out = "error" ->
                /\ SdkApply(SdkDone(SdkCatch(SdkCur, "session error")))
                /\ sdkBoot' = "done"
                /\ sdkLast' = SdkEvent("bootstrap", "settle", Nothing, sdkUser)
           [] out = "session" ->
                /\ SdkApply(SdkCur)
                /\ sdkBoot' = "getUser"
                /\ sdkLast' = SdkEvent("bootstrap", "await", Nothing, sdkUser)
           [] out = "no session" ->
                /\ SdkApply(SdkDone(SdkCur))
                /\ sdkBoot' = "done"
                /\ sdkLast' = SdkEvent("bootstrap", "settle", Nothing, sdkUser)
    /\ UNCHANGED <<sdkPending, sdkNotes, sdkWritten, authVars, apiVars, hookVars,
                   designerVars>>

\* getSession() resumed by supabase.auth.getUser(): setUser(currentUser), or
\* the catch block when the call rejected; then the finally.
SdkGetUserSettle ==
    /\ sdkBoot = "getUser"
    /\ \/ \E u \in Users \cup {Null} :
            /\ SdkApply(SdkSignedIn(SdkCur, u))
            /\ sdkWritten' = u
            /\ sdkLast' = SdkEvent("bootstrap", "settle", u, sdkUser)
       \/ /\ SdkApply(SdkDone(SdkCatch(SdkCur, "Failed to fetch")))
          /\ sdkWritten' = sdkWritten
          /\ sdkLast' = SdkEvent("bootstrap", "settle", Nothing, sdkUser)
    /\ sdkBoot' = "done"
    /\ UNCHANGED <<sdkPending, sdkNotes, authVars, apiVars, hookVars,
                   designerVars>>

\* onAuthStateChange callback (event, session), up to its await when there is
\* a session, to its end when there is none.
SdkNotify ==
    /\ sdkBoot # "start"
    /\ sdkNotes < MaxNotifications
    /\ sdkNotes' = sdkNotes + 1
    /\ \E hasSession \in BOOLEAN :
         IF hasSession
         THEN /\ SdkApply(SdkCur)
              /\ sdkPending' = sdkPending + 1
              /\ sdkWritten' = sdkWritten
              /\ sdkLast' = SdkEvent("notification", "await", Nothing, sdkUser)
         ELSE /\ SdkApply(SdkDone(SdkSetUser(SdkCur, Null)))
              /\ sdkPending' = sdkPending
              /\ sdkWritten' = Null
              /\ sdkLast' = SdkEvent("notification", "settle", Null, sdkUser)
    /\ UNCHANGED <<sdkBoot, authVars, apiVars, hookVars,
                   designerVars>>

\* onAuthStateChange callback resumed by supabase.auth.getUser(); a rejection
\* ends the callback before any setter.
SdkNotifySettle ==
    /\ sdkPending > 0
    /\ sdkPending' = sdkPending - 1
    /\ \/ \E u \in Users \cup {Null} :
            /\ SdkApply(SdkSignedIn(SdkCur, u))
            /\ sdkWritten' = u
            /\ sdkLast' = SdkEvent("notification", "settle", u, sdkUser)
       \/ /\ SdkApply(SdkCur)
          /\ sdkWritten' = sdkWritten
          /\ sdkLast' = SdkEvent("notification", "settle", Nothing, sdkUser)
    /\ UNCHANGED <<sdkBoot, sdkNotes, authVars, apiVars, hookVars,
                   designerVars>>

SdkNext ==
    \/ SdkGetSession \/ SdkGetSessionSettle \/ SdkGetUserSettle
    \/ SdkNotify \/ SdkNotifySettle

SdkSpec == Init /\ [][SdkNext]_vars

\* ------------------------------------------------------ api layer on its own
\* A caller invokes service function fn with token argument tok (none for the
\* functions that have no token parameter): the function builds its request
\* and awaits fetch.
ApiRequest ==
    /\ api.phase # "pending"
    /\ \E fn \in AuthServices \cup DataServices \cup StorageServices :
       \E tok \in TokenArgs :
          /\ TokenParam(fn) \/ tok = Null
          /\ api' = ApiCall("pending", fn, tok, ServiceRequest(fn, tok), NoResult)
    /\ UNCHANGED <<authVars, sdkVars, hookVars, designerVars>>

\* fetch settles and the service function returns or throws.
ApiSettle ==
    /\ api.phase = "pending"
    /\ \E h \in HttpOutcomes(api.fn) :
          api' = ApiCall("settled", api.fn, api.tok, api.config,
                         From(ServiceCall(api.fn, h), h))
    /\ UNCHANGED <<authVars, sdkVars, hookVars, designerVars>>

ApiNext == ApiRequest \/ ApiSettle

ApiSpec == Init /\ [][ApiNext]_vars

\* ---------------------------------------------------- useData / useStorage
\* An operation of a hook up to `await <service>.<fn>(.., token)`.
HookCall ==
    /\ boot.pc # "start"
    /\ hookCalls < MaxHookCalls /\ HookTasksInFlight < MaxHookTasks
    /\ \E h \in Hooks :
         /\ HookApply(h, HookEnter(HookCur(h)))
         /\ hookTasks' = [hookTasks EXCEPT ![h] = @ + 1]
         /\ hookLast' = HookEvent(h, "invoke", "pending", HookToken, NoResult)
    /\ hookCalls' = hookCalls + 1
    /\ UNCHANGED <<authVars, sdkVars, apiVars, designerVars>>

\* Variant: an operation that was rejected signs the user out locally.
HookSettle_SignsOutOnError ==
    /\ \E h \in Hooks :
         /\ hookTasks[h] > 0
         /\ hookTasks' = [hookTasks EXCEPT ![h] = @ - 1]
         /\ \E r \in HookResults(h) :
              IF r.threw
              THEN /\ HookApply(h, HookFinally(HookCatch(HookCur(h), r.message)))
                   /\ hookLast' = HookEvent(h, "settle", "rejected", Null, r)
                   /\ token' = Null /\ user' = Null /\ session' = Null
                   /\ UNCHANGED <<loading, error>>
              ELSE /\ HookApply(h, HookFinally(HookCur(h)))
                   /\ hookLast' = HookEvent(h, "settle", "resolved", Null, r)
                   /\ UNCHANGED <<user, session, loading, error, token>>
    /\ UNCHANGED <<boot, tasks, invoked, concurrent, last, mounted, lateSets,
                   hookCalls, sdkVars, apiVars, designerVars>>

\* An operation of a hook resumed by the settlement of its service call:
\* `return response`, or the catch block; then the finally.
HookSettle ==
    /\ \E h \in Hooks :
         /\ hookTasks[h] > 0
         /\ hookTasks' = [hookTasks EXCEPT ![h] = @ - 1]
         /\ \E r \in HookResults(h) :
              IF r.threw
              THEN /\ HookApply(h, HookFinally(HookCatch(HookCur(h), r.message)))
                   /\ hookLast' = HookEvent(h, "settle", "rejected", Null, r)
              ELSE /\ HookApply(h, HookFinally(HookCur(h)))
                   /\ hookLast' = HookEvent(h, "settle", "resolved", Null, r)
    /\ UNCHANGED <<hookCalls, authVars, sdkVars, apiVars, designerVars>>

\* The hooks under a provider that mounts and runs its bootstrap.
HookNext == BootNext \/ HookCall \/ HookSettle

HookSpec == Init /\ [][HookNext]_vars

\* No call of the provider is suspended.
ProviderIdle == NumInFlight = 0 /\ ~BootInFlight

\* The same next to the actions of the provider that change the token slot,
\* signIn and signOut, here invoked one at a time (their overlap is the
\* subject of Spec); hook operations overlap them freely.
HookTokenNext ==
    \/ BootNext
    \/ (ProviderIdle /\ SignIn) \/ SignInSettle
    \/ (ProviderIdle /\ SignOut) \/ SignOutSettle
    \/ HookCall \/ HookSettle

HookTokenSpec == Init /\ [][HookTokenNext]_vars

\* ---------------------------------------- QuestionDesigner / SurveyDesigner
\* onChange of the type <select>
SetQuestionType ==
    /\ \E t \in QuestionTypes \ {questionType} : questionType' = t
    /\ UNCHANGED <<questionText, options, questions>>
    /\ UNCHANGED <<authVars, sdkVars, apiVars, hookVars>>

\* onChange of the question text <input>
SetQuestionText ==
    /\ \E t \in {"", Typed} \ {questionText} : questionText' = t
    /\ UNCHANGED <<questionType, options, questions>>
    /\ UNCHANGED <<authVars, sdkVars, apiVars, hookVars>>

\* addOption
AddOption ==
    /\ HasOptionsUI /\ Len(options) < MaxOptions
    /\ options' = Append(options, OptionLabel(Len(options) + 1))
    /\ UNCHANGED <<questionType, questionText, questions>>
    /\ UNCHANGED <<authVars, sdkVars, apiVars, hookVars>>

\* removeOption(index), from the button next to each option
RemoveOption ==
    /\ HasOptionsUI
    /\ \E index \in 1..Len(options) : options' = Without(options, index)
    /\ UNCHANGED <<questionType, questionText, questions>>
    /\ UNCHANGED <<authVars, sdkVars, apiVars, hookVars>>

\* onChange of an option <input>
EditOption ==
    /\ HasOptionsUI
    /\ \E index \in 1..Len(options) :
         /\ options[index] # TypedOption
         /\ options' = [options EXCEPT ![index] = TypedOption]
    /\ UNCHANGED <<questionType, questionText, questions>>
    /\ UNCHANGED <<authVars, sdkVars, apiVars, hookVars>>

\* handleSubmit, which the form runs only when the required text is filled
\* in; onAddQuestion is SurveyDesigner's addQuestion.
HandleSubmit ==
    /\ questionText # ""
    /\ Len(questions) < MaxQuestions
    /\ questions' = Append(questions, [type |-> questionType, text |-> questionText,
                                       options |-> options])
    /\ questionText' = ""
    /\ options' = <<OptionLabel(1)>>
    /\ UNCHANGED questionType
    /\ UNCHANGED <<authVars, sdkVars, apiVars, hookVars>>

DesignerNext ==
    \/ SetQuestionType \/ SetQuestionText
    \/ AddOption \/ RemoveOption \/ EditOption
    \/ HandleSubmit

DesignerSpec == Init /\ [][DesignerNext]_vars


\* ================================================================== claims
\* Steps the claims speak about.
BootSettled == last.op = "checkSession" /\ last.phase = "settle"
\* checkSession finished before any public action was invoked.
BootAlone == BootSettled /\ invoked = 0
Settled(kind) == last.op = kind /\ last.phase = "settle"

\* C1: in every reachable state, user != null implies that a token is
\* persisted in the token slot.
C1_UserImpliesToken == user # Null => token # Null

\* C2: whenever signOut() finishes, resolved or rejected, the token slot is
\* empty and user and session are null; and signOut calls the gateway only
\* with a token that was persisted (without one, no call is made and it
\* finishes at once).
C2_SignOutAlwaysCleans ==
    /\ Settled("signOut") => (token = Null /\ user = Null /\ session = Null)
    /\ (last.op = "signOut" /\ last.phase = "invoke") =>
           (last.call = "signOut" /\ last.callTok # Null)

\* C2 witness: a signOut whose remote call threw has finished.
C2_Witness == Settled("signOut") /\ last.threw /\ last.out = "rejected"

\* C3: PrivateRoute makes no allow/redirect decision before the bootstrap
\* checkSession has finished: until then loading is true (the spinner shows).
C3_NoDecisionBeforeBootstrap ==
    boot.pc # "done" => PrivateRoute(loading, user) = "spinner"

\* C4: loading is never stuck true: when neither bootstrap nor an action is
\* in flight loading is false, and (every gateway call settling eventually)
\* whenever loading is true it eventually becomes false.
C4_LoadingNeverStuck ==
    /\ [](Quiescent => loading = FALSE)
    /\ (loading = TRUE) ~> (loading = FALSE)

\* C4 witness: everything has settled, the latest action having failed.
C4_Witness ==
    Quiescent /\ invoked > 0 /\ last.out = "rejected" /\ loading = FALSE

\* C5 as stated: once bootstrap has completed, loading is true only while a
\* sign-in or sign-out is in flight; resetPassword, updatePassword and
\* updateProfile do not set it.  (signUp, which shares signIn's contract, is
\* counted with signIn here, so a violation is one of the three named actions.)
C5_OnlySignInOutReuseLoading ==
    (boot.pc = "done" /\ loading = TRUE) =>
        \E k \in {"signUp", "signIn", "signOut"} : tasks[k] > 0

\* C5 amended: once bootstrap has completed, loading is true only while some
\* public action is in flight, and every public action that suspends on the
\* gateway (resetPassword, updatePassword and updateProfile included) has set
\* loading to true at its entry.
C5_LoadingOnlyWhileActionInFlight ==
    /\ (boot.pc = "done" /\ loading = TRUE) => TasksInFlight # {}
    /\ (last.phase = "invoke" /\ last.op # "checkSession") => loading = TRUE

\* C5 witness: after bootstrap, loading is true with only a resetPassword,
\* updatePassword or updateProfile in flight.
C5_Witness ==
    /\ boot.pc = "done" /\ loading = TRUE
    /\ last.phase = "invoke"
    /\ last.op \in {"resetPassword", "updatePassword", "updateProfile"}
    /\ TasksInFlight = {last.op}

\* C6: a bootstrap with a persisted token whose verifySession fails (throws or
\* answers success:false) ends with user and session null, the token removed,
\* error set and loading false.  (Stated for a bootstrap that finishes before
\* any public action is invoked.)
C6_VerifyFailureCleansAndRecords ==
    (BootAlone /\ Len(boot.calls) = 1) =>
        /\ user = Null /\ session = Null /\ token = Null
        /\ error # Null
        /\ loading = FALSE

\* C7: a bootstrap whose verifySession succeeds and whose getCurrentUser fails
\* (throws or answers success:false) ends degraded: session set, user null,
\* error set, loading false, token retained.  (Stated for a bootstrap that
\* finishes before any public action is invoked.)
C7_DegradedBootstrap ==
    (BootAlone /\ Len(boot.calls) = 2 /\ (last.threw \/ ~last.data.success)) =>
        /\ session = boot.verified /\ session # Null
        /\ user = Null
        /\ error # Null
        /\ loading = FALSE
        /\ token = boot.tok

\* C8: a bootstrap with persisted token t, verifySession(t) succeeding with
\* session s and getCurrentUser(t) succeeding with user u, ends with user = u,
\* session = s, loading false, error null and t still persisted;
\* verifySession was called before getCurrentUser, both with t.  (Stated for
\* a bootstrap that finishes before any public action is invoked.)
C8_BootstrapHappyPath ==
    (BootAlone /\ Len(boot.calls) = 2 /\ ~last.threw /\ last.data.success) =>
        /\ user = last.data.user /\ user \in Users
        /\ session = boot.verified /\ session \in Sessions
        /\ loading = FALSE
        /\ error = Null
        /\ token = boot.tok /\ token \in Tokens
        /\ boot.calls = << GatewayCall("verifySession", boot.tok),
                           GatewayCall("getCurrentUser", boot.tok) >>

\* C8 witness: the bootstrap has just authenticated the user.
C8_Witness ==
    BootAlone /\ Len(boot.calls) = 2 /\ ~last.threw /\ last.data.success
    /\ user = "u2" /\ session = "s1" /\ token = "tok1"

\* C9: a bootstrap with no persisted token makes no gateway call and ends
\* with user null, session null, loading false, error null.
C9_BootstrapWithoutToken ==
    (boot.pc # "start" /\ boot.tok = Null) =>
        /\ boot.calls = <<>> /\ boot.pc = "done"
        /\ BootSettled =>
             (user = Null /\ session = Null /\ loading = FALSE /\ error = Null
              /\ last.call = "none")

\* C9 witness: the bootstrap found no token and has finished.
C9_Witness == BootSettled /\ boot.tok = Null /\ boot.calls = <<>>

\* C10: after a signIn (not overlapping another call) succeeds,
\* user and session are the returned ones, error is null, a token is
\* persisted and getToken() returns the token this sign-in returned.
C10_SignInPersistsReturnedToken ==
    (Settled("signIn") /\ last.out = "resolved" /\ ~concurrent) =>
        /\ user = last.data.user /\ session = last.data.session
        /\ error = Null
        /\ token # Null
        /\ getToken = AccessToken(last.data.session)


\* C11: when signUp or signIn fails (the gateway answers success:false or
\* throws), the action sets error to the failure message and rejects, and
\* neither its entry nor its failure changes user, session or the token slot.
C11_FailedSignKeepsIdentity ==
    [][ /\ (last'.op \in {"signUp", "signIn"} /\ last'.phase = "invoke") =>
              (user' = user /\ session' = session /\ token' = token)
        /\ (last'.op \in {"signUp", "signIn"} /\ last'.out = "rejected") =>
              /\ user' = user /\ session' = session /\ token' = token
              /\ error' = last'.message /\ error' # Null
              /\ (~last'.threw /\ last'.data.error # Null) =>
                     error' = last'.data.error
              /\ (~last'.threw) => ~last'.data.success
      ]_vars

\* C11 witness: a signIn has just failed while a user is signed in, and the
\* identity and the token are still there.
C11_Witness ==
    /\ Settled("signIn") /\ last.out = "rejected" /\ error # Null
    /\ user # Null /\ session # Null /\ token # Null

\* C12: updatePassword and updateProfile invoked while no token is persisted
\* fail at once: they reject with 'Not authenticated' in error, make no
\* gateway call, leave user, session and the token slot unchanged and leave
\* loading false.
C12_TokenActionsNeedToken ==
    [][ ( /\ invoked' = invoked + 1
          /\ last'.op \in {"updatePassword", "updateProfile"}
          /\ token = Null ) =>
            /\ last'.phase = "settle" /\ last'.out = "rejected"
            /\ last'.call = "none" /\ tasks' = tasks
            /\ error' = "Not authenticated"
            /\ user' = user /\ session' = session /\ token' = token
            /\ loading' = FALSE
      ]_vars

\* C12 witness: updatePassword has just failed for want of a token.
C12_Witness ==
    /\ Settled("updatePassword") /\ last.out = "rejected" /\ last.http = NoHttp
    /\ token = Null /\ error = "Not authenticated" /\ loading = FALSE

\* C13: resetPassword hands no token to the gateway, whether or not one is
\* persisted, and neither its entry nor any of its outcomes (success,
\* success:false, thrown error) changes user, session or the token slot.
C13_ResetPasswordFrame ==
    [][ last'.op = "resetPassword" =>
          /\ user' = user /\ session' = session /\ token' = token
          /\ last'.phase = "invoke" =>
                 (last'.call = "resetPassword" /\ last'.callTok = Null)
      ]_vars

\* C13 witness: a resetPassword has finished while a user is signed in with a
\* persisted token.
C13_Witness ==
    Settled("resetPassword") /\ last.http # NoHttp /\ token # Null /\ user # Null

\* C14: a backend-reported failure (the gateway returns a result with
\* success:false) makes every public action fail like a transport failure:
\* the action rejects and error is set.
C14_BackendFailureRejects ==
    ( /\ last.op \in Kinds /\ last.phase = "settle"
      /\ last.http # NoHttp /\ ~last.threw /\ ~last.data.success ) =>
        (last.out = "rejected" /\ error # Null)


\* The gateway settlement that the latest step consumed.
Consumed(ev) ==
    [threw |-> ev.threw, message |-> ev.message, data |-> ev.data, http |-> ev.http]

\* C16: signIn run twice in a row with the same gateway result leaves user,
\* session, error, loading and the token slot as one run does: from every
\* state a second run changes nothing, and after a signIn that really ran
\* alone, running it again with the result it received changes nothing.
C16_SignInIdempotent ==
    [][ /\ \A r \in GatewayResults("signIn") :
             SignInOnce(SignInOnce(Cur', r), r) = SignInOnce(Cur', r)
        /\ (last'.op = "signIn" /\ last'.phase = "settle" /\ ~concurrent') =>
             SignInOnce(Cur', Consumed(last')) = Cur'
      ]_vars

\* C16 witness: a signIn that ran alone, after an earlier action, has
\* succeeded and replaced the identity and the token.
C16_Witness ==
    /\ Settled("signIn") /\ ~concurrent /\ invoked >= 2 /\ last.out = "resolved"
    /\ user = last.data.user /\ token = AccessToken(session) /\ token # Null

\* C18: what PrivateRoute renders depends on (loading, user) only: the
\* spinner while loading; otherwise the outlet when user is not null and the
\* redirect to /login when it is, whatever session and error are.
C18_PrivateRouteByLoadingAndUser ==
    LET view == PrivateRoute(loading, user) IN
    /\ loading => view = "spinner"
    /\ (~loading /\ user # Null) => view = "outlet"
    /\ (~loading /\ user = Null) => view = "redirect"

\* C18 witness: not loading, a session and an error are set but no user: the
\* guard redirects.
C18_Witness ==
    /\ ~loading /\ user = Null /\ session # Null /\ error # Null
    /\ PrivateRoute(loading, user) = "redirect"

\* C19: updateProfile with a persisted token calls the gateway's updateUser
\* with that token; on success user becomes the returned user; on
\* success:false or a throw user is unchanged; session and the token slot
\* are never changed by it.
C19_UpdateProfileReplacesUserOnly ==
    [][ last'.op = "updateProfile" =>
          /\ session' = session /\ token' = token
          /\ (last'.phase = "invoke") =>
                /\ token # Null /\ user' = user
                /\ last'.call = "updateUser" /\ last'.callTok = token
          /\ (last'.phase = "settle") =>
                user' = IF last'.http # NoHttp /\ ~last'.threw /\ last'.data.success
                        THEN last'.data.user ELSE user
      ]_vars

\* C19 witness: updateProfile has succeeded with a token persisted, and user
\* is the returned user.
C19_Witness ==
    /\ Settled("updateProfile") /\ last.out = "resolved" /\ last.data.success
    /\ user = last.data.user /\ session # Null /\ token # Null

C15_NoLateBootstrapEffects ==
    [][ (~mounted /\ last'.op = "checkSession") =>
            (lateSets' = lateSets /\ token' = token) ]_vars

\* C17: in the SDK-based provider, bootstrap and notifications finish in any
\* order and user is always the identity carried by the update that finished
\* last; and the update 'signed in as X' applied twice leaves user, loading
\* and error as applying it once does, both as a composition from any state
\* and in the runs where a notification repeats what is already in place.
C17_LastUpdateWins ==
    [][ /\ sdkUser' = sdkWritten'
        /\ sdkLast'.carried # Nothing => sdkUser' = sdkLast'.carried
        /\ \A u \in Users :
             SdkSignedIn(SdkSignedIn(SdkCur', u), u) = SdkSignedIn(SdkCur', u)
        /\ ( /\ sdkLast'.phase = "settle" /\ sdkLast'.carried \in Users
             /\ sdkUser = sdkLast'.carried /\ ~sdkLoading ) =>
               UNCHANGED <<sdkUser, sdkLoading, sdkError>>
      ]_vars

\* C17 witness: a notification signed a user in while bootstrap was awaiting,
\* and bootstrap, finishing last, replaced that user by another.
C17_Witness ==
    /\ sdkLast.src = "bootstrap" /\ sdkLast.phase = "settle"
    /\ sdkLast.carried \in Users /\ sdkLast.before \in Users
    /\ sdkLast.before # sdkLast.carried
    /\ sdkUser = sdkLast.carried /\ sdkPending = 0 /\ sdkNotes > 0

C25_BearerHeaderIffToken ==
    api.phase # "idle" =>
        LET auth == api.config.headers.Authorization IN
        /\ (auth # NoHeader) <=> (TokenParam(api.fn) /\ api.tok \in Tokens)
        /\ auth # NoHeader => auth = <<"Bearer", api.tok>>
        /\ api.fn \in {"signUp", "signIn", "resetPassword"} => auth = NoHeader
        /\ ( /\ api.fn \in {"signOut", "verifySession", "getCurrentUser",
                            "updateUser", "updatePassword"}
             /\ api.tok \in Tokens ) => auth = <<"Bearer", api.tok>>

\* C25 witness: signIn was called while a token is persisted and its request
\* has no Authorization header.
C25_Witness ==
    /\ api.phase = "settled" /\ api.fn = "signIn" /\ token # Null
    /\ api.config.headers.Authorization = NoHeader

\* A step of a hook operation: its call, its settlement.
HookCalled == hookCalls' = hookCalls + 1
HookSettled == hookTasks' # hookTasks /\ hookCalls' = hookCalls

\* C22: every operation of useData and useStorage reads the token slot when
\* it is called and hands that value to its service function, whose request
\* then carries it: the token a signIn has just persisted, none after a
\* signOut.
C22_HookTokenReadAtCall ==
    [][ HookCalled =>
          /\ hookLast'.phase = "invoke" /\ hookLast'.callTok = token
          /\ \A op \in HookOps(hookLast'.hook) :
               ServiceRequest(HookService(op), hookLast'.callTok)
                   .headers.Authorization
                 = IF token # Null THEN <<"Bearer", token>> ELSE NoHeader
      ]_vars

\* C22 witness: the provider mounted with token tok1, a signIn then stored
\* tok2, and the hook operation called after it carries tok2.
C22_Witness ==
    /\ hookLast.phase = "invoke" /\ hookLast.callTok = "tok2"
    /\ boot.tok = "tok1" /\ token = "tok2"

\* The error a service function meets when fetch produced x: the rejection
\* of fetch, or what handleResponse throws.
Underlying(x) == IF x.net THEN Thrown("Failed to fetch") ELSE HandleResponse(x)

\* C23: no service function swallows an error: when fetch rejects or
\* handleResponse throws, every authService, dataService and storageService
\* function rejects with that error; and the hook operation that awaited it
\* sets its local error to the message, rejects and resets its local loading.
C23_ErrorsPropagate ==
    [][ /\ \A fn \in AuthServices \cup DataServices \cup StorageServices :
          \A x \in HttpOutcomes(fn) :
             Underlying(x).threw => ServiceCall(fn, x) = Underlying(x)
        /\ (last' # last /\ last'.http # NoHttp /\ Underlying(last'.http).threw) =>
             (last'.threw /\ last'.message = Underlying(last'.http).message)
        /\ (HookSettled /\ Underlying(hookLast'.http).threw) =>
             /\ hookLast'.threw /\ hookLast'.out = "rejected"
             /\ hookLast'.message = Underlying(hookLast'.http).message
             /\ hookError'[hookLast'.hook] = hookLast'.message
             /\ hookLoading'[hookLast'.hook] = FALSE
      ]_vars

\* C23 witness: a useData operation has just been rejected with the error of
\* a non-2xx response, which is now the hook's local error.
C23_Witness ==
    /\ hookLast.phase = "settle" /\ hookLast.hook = "useData"
    /\ ~hookLast.http.net /\ ~hookLast.http.ok /\ hookLast.out = "rejected"
    /\ hookError["useData"] = "Invalid credentials" /\ ~hookLoading["useData"]

\* C28: the operations of useData and useStorage never modify AuthState or
\* the token slot, whatever their outcome; a step of an operation changes
\* only the local loading and error of its own hook.
C28_HooksLeaveAuthStateAlone ==
    [][ (HookCalled \/ HookSettled) =>
          /\ UNCHANGED <<user, session, loading, error, token>>
          /\ \A h \in Hooks \ {hookLast'.hook} :
               hookLoading'[h] = hookLoading[h] /\ hookError'[h] = hookError[h]
      ]_vars

\* C28 witness: a hook operation failed while a user is signed in; the
\* provider's state shows nothing of it.
C28_Witness ==
    /\ hookLast.phase = "settle" /\ hookLast.out = "rejected"
    /\ hookError[hookLast.hook] # Null
    /\ user # Null /\ token # Null /\ error = Null /\ ~loading

\* C24 as stated: every public action clears error at entry, error stays
\* null while an action is in flight until that action fails, and error is
\* null after an action succeeds.
C24_ErrorNullUntilOwnFailure ==
    [][ /\ (last'.op \in Kinds /\ last'.phase = "invoke") => error' = Null
        /\ (last'.op \in Kinds /\ last'.out = "resolved") => error' = Null
        /\ (NumInFlight' > 0 /\ NumInFlight' >= NumInFlight) => error' = Null
      ]_vars

\* C24: every public action sets error to null at entry, whatever it was;
\* an action that no other call overlaps (neither the bootstrap nor another
\* action) keeps error null while it is in flight, leaves it null when it
\* succeeds and sets it to its own message when it fails.
C24_EntryClearsError ==
    [][ /\ (invoked' = invoked + 1 /\ last'.phase = "invoke") => error' = Null
        /\ (invoked' = invoked + 1 /\ last'.phase = "settle") =>
              error' = IF last'.out = "rejected" THEN last'.message ELSE Null
        /\ (~concurrent' /\ NumInFlight' = 1) => error' = Null
        /\ (last'.op \in Kinds /\ invoked' = invoked /\ ~concurrent') =>
              error' = IF last'.out = "rejected" THEN last'.message ELSE Null
      ]_vars

\* C24 witness: the bootstrap failed on getCurrentUser and left its message
\* in error (session and token gone after a verified session); resetPassword,
\* the first action invoked, has entered and error is null.
C24_Witness ==
    /\ boot.pc = "done" /\ boot.verified # Null /\ Len(boot.calls) = 2
    /\ session = Null /\ token = Null
    /\ invoked = 1 /\ last.op = "resetPassword" /\ last.phase = "invoke"
    /\ error = Null

\* C26: a signIn that succeeds while checkSession is still suspended for the
\* token persisted earlier is not undone by it: the steps of checkSession
\* that follow leave the token signIn stored and the user and session
\* signIn set.
C26_BootstrapKeepsLaterSignIn ==
    [][ ( /\ last.op = "signIn" /\ last.out = "resolved"
          /\ token # Null /\ token = AccessToken(last.data.session)
          /\ user = last.data.user /\ session = last.data.session
          /\ last'.op = "checkSession" ) =>
            (token' = token /\ user' = user /\ session' = session)
      ]_vars

\* C27: while a public action is in flight loading is true: an action that
\* finishes while another is still pending does not set loading to false.
C27_LoadingWhileAnyInFlight ==
    [][ (last'.op \in Kinds /\ last'.phase = "settle" /\ NumInFlight' > 0) =>
            loading' = TRUE ]_vars

\* C29: in every settled state (loading false) at most one of AuthPage and
\* PrivateRoute redirects: AuthPage sends to /dashboard only when user is
\* set, PrivateRoute sends to /login only when user is null.
C29_NoRedirectLoop ==
    ~loading =>
        /\ (AuthPage(user) = "dashboard") => user # Null
        /\ (PrivateRoute(loading, user) = "redirect") => user = Null
        /\ ~(AuthPage(user) = "dashboard" /\ PrivateRoute(loading, user) = "redirect")

\* C29 witness: settled with a session but no user: PrivateRoute sends to
\* /login and AuthPage stays on its forms.
C29_Witness ==
    /\ ~loading /\ user = Null /\ session # Null
    /\ PrivateRoute(loading, user) = "redirect" /\ AuthPage(user) = "forms"

\* C30: whatever options were added, removed and edited, every submit
\* appends exactly one question to the end of the question list and leaves
\* the earlier questions as they were, and a submitted multiple-choice or
\* checkbox question has at least one option.
C30_SubmitAppendsWellFormedQuestion ==
    [][ questions' # questions =>
          /\ Len(questions') = Len(questions) + 1
          /\ SubSeq(questions', 1, Len(questions)) = questions
          /\ LET q == questions'[Len(questions')] IN
               q.type \in {"multiple-choice", "checkbox"} => Len(q.options) >= 1
      ]_vars

====
